---- MODULE Spec2Model ----
(***************************************************************************)
(* Archive maintenance of strava-stats: src/src/fetch_data.py,             *)
(* maintain_archive with _fetch_year and _fetch_pages, run repeatedly      *)
(* against one archive file and one remote activity source.                *)
(*                                                                         *)
(* Time is counted in ticks of UTC time; a calendar year has YearLen       *)
(* ticks and year y covers the ticks y*YearLen .. (y+1)*YearLen - 1.       *)
(* A record's start_date (an ISO-8601 UTC string in the program) is the    *)
(* tick it denotes: the order of the strings is the order of the ticks,    *)
(* start_date[:4] is YearOf, and fromisoformat(..).timestamp() is the      *)
(* tick itself.  datetime(year, 1, 1).timestamp() is a naive datetime, so  *)
(* it denotes LOCAL midnight: the tick of UTC midnight minus the offset tz *)
(* of the machine's time zone.                                             *)
(*                                                                         *)
(* target_years is a list of distinct years not later than the current     *)
(* year (the spec's "ordered set").  Every record carries an id and a      *)
(* start_date, as the remote source's records do.                          *)
(***************************************************************************)
EXTENDS Integers, Sequences, FiniteSets, TLC

\* ---- bounds of the model ----
MaxId    == 2    \* number of activities the remote source may hold
YearLen  == 3    \* ticks per calendar year
NumYears == 2    \* calendar years 0 .. NumYears-1; the last one is running
MaxRuns  == 2    \* runs of maintain_archive in one behaviour
ServeCap == 1    \* the most records the remote source puts on one page
MaxRows  == 3    \* the most rows of a table handed to the test
MaxErr   == 2    \* the most failed page requests of one call of the script

\* ---- program constant ----
PerPage == 200   \* params['per_page']

TZOffsets == {-1, 0, 1}                \* local time - UTC, in ticks
Years     == 0 .. (NumYears - 1)
Now       == (NumYears - 1) * YearLen + 1   \* datetime.now().timestamp()
Ticks     == 0 .. Now

VARIABLES
  \* environment
  remote,          \* remote[i] = start tick of the activity with id i
  tz,              \* time-zone offset of the machine
  edgeIncl,        \* remote source includes the bounds after/before itself
  remoteOrder,     \* "asc" or "desc": order in which the source lists records
  \* archive file
  store_state,     \* "absent" | "ok"
  store,           \* the JSON array held by archive_file
  \* maintain_archive
  run, pc,
  target_years, yi,
  all_activities, present_years, current_year, updated,
  \* _fetch_pages
  fkind, after_ts, before_ts, page, activities,
  filtered_data,
  \* observers of a run
  fetchLog,        \* fetch calls issued in this run
  fetched,         \* all records returned by fetches of this run
  store0,          \* store content when the run loaded it
  wrote,           \* the run opened archive_file for writing
  merged,          \* records appended to all_activities in this run
  last_merge,      \* [kind, k, d, grew] of the last merge of a fetch result
  failed,          \* some page request of this run got a non-200 status
  prevTargets, prevFailed,
  held,            \* past years that a loaded archive already held
  partial,         \* past years whose full fetch broke off after a page
  blank,           \* years whose full fetch returned no record
  reqLog,          \* page requests of the current (or last) _fetch_pages call
  load_status,     \* what the run found in archive_file: absent | ok | corrupt
  \* run_pipeline.main
  cfg,             \* what the setup steps find: credentials, years, tokens
  ppc,             \* "script": fetch_activities_for_year of strava_stats.py;
                   \* "lib": maintain_archive is called on its own;
                   \* "pages": the same, with the page requests observed
  \* tests/test_process.py
  test

envVars   == <<remote, tz, edgeIncl, remoteOrder>>
fileVars  == <<store_state, store>>
fetchVars == <<fkind, after_ts, before_ts, page, activities>>
obsVars   == <<fetchLog, fetched, store0, wrote, merged, last_merge, failed,
               prevTargets, prevFailed, held, partial, blank>>
pipeVars  == <<cfg, ppc, test>>
vars == <<remote, tz, edgeIncl, remoteOrder, store_state, store, run, pc,
          target_years, yi, all_activities, present_years, current_year,
          updated, fkind, after_ts, before_ts, page, activities,
          filtered_data, fetchLog, fetched, store0, wrote, merged,
          last_merge, failed, prevTargets, prevFailed, held, partial, blank,
          reqLog,
          load_status, cfg, ppc, test>>

\* ---------------------------------------------------------------------
\* helpers
Min(a, b) == IF a < b THEN a ELSE b

Range(s) == {s[i] : i \in DOMAIN s}

Ids(s) == {s[i].id : i \in DOMAIN s}

Reverse(s) == [i \in 1..Len(s) |-> s[Len(s) + 1 - i]]

\* int(start_date[:4])
YearOf(sd) == sd \div YearLen

\* datetime(year, 1, 1).timestamp(): local midnight of Jan 1
LocalMidnight(year, off) == year * YearLen - off

\* datetime.now().year: the year of the local wall clock
LocalYear(off) == YearOf(Now + off)

\* STRAVA_YEARS: the running year and the year before it, in any order
TargetPool == {y \in Years : y >= NumYears - 2}

TargetChoices ==
  {s \in UNION {[1..n -> TargetPool] : n \in 1..2} :
      \A i, j \in DOMAIN s : i # j => s[i] # s[j]}

\* the remote source: ids are handed out in start order
RemoteChoices ==
  {s \in UNION {[1..n -> Ticks] : n \in 0..MaxId} :
      \A i, j \in DOMAIN s : i < j => s[i] <= s[j]}

RemoteSeq(rem) == [i \in 1..Len(rem) |-> [id |-> i, start_date |-> rem[i]]]

InRange(t, lo, hi, incl) ==
  IF incl THEN lo <= t /\ t <= hi ELSE lo < t /\ t < hi

\* the records the source lists for ?after=lo&before=hi, in its order
Listing(rem, ord, incl, lo, hi) ==
  LET base == IF ord = "asc" THEN RemoteSeq(rem) ELSE Reverse(RemoteSeq(rem))
  IN  SelectSeq(base, LAMBDA r : InRange(r.start_date, lo, hi, incl))

\* the body of page p for per_page = n
PageOf(list, p, n) ==
  LET c == Min(n, ServeCap)
  IN  SubSeq(list, (p - 1) * c + 1, Min(p * c, Len(list)))

\* ---------------------------------------------------------------------
\* maintain_archive, pure parts

LoadArchiveLenient(state, content) == content

\* lines 54-61: a missing or unparseable file gives the empty list
LoadArchive(state, content) == IF state = "ok" THEN content ELSE <<>>

PresentYearsLastOnly(acts) ==
  IF acts = <<>> THEN {} ELSE {YearOf(acts[Len(acts)].start_date)}

\* a record of the archive file may lack a start_date: start_date -1 stands
\* for the empty string, -2 for a record without the key.
\* x['start_date'] does not raise KeyError
HasKey(a) == a.start_date # -2

\* a.get('start_date', '') is a non-empty string
HasDate(a) == a.start_date >= 0

\* lines 65-72
PresentYears(acts) ==
  {YearOf(acts[i].start_date) : i \in {j \in DOMAIN acts : HasDate(acts[j])}}

\* line 99 raises KeyError on a record without the key
SyncRaises(acts) == \E i \in DOMAIN acts : ~HasKey(acts[i])

\* line 138: int('') raises ValueError
FilterRaises(acts) == \E i \in DOMAIN acts : ~HasDate(acts[i])

\* line 81
CaseA(year, present, current) == year \in present /\ year < current

\* line 86
CaseB(year, present) == year \notin present

\* line 96
CaseC(year, current) == year = current

\* line 99
YearActs(acts, year) == SelectSeq(acts, LAMBDA a : YearOf(a.start_date) = year)

\* list.sort(key = start_date): stable, ascending
InsertByDate(s, r) ==
  LET k == Cardinality({i \in DOMAIN s : s[i].start_date <= r.start_date})
  IN  SubSeq(s, 1, k) \o <<r>> \o SubSeq(s, k + 1, Len(s))

SortByDateSkipped(s) == s

RECURSIVE SortByDate(_)
SortByDate(s) ==
  IF s = <<>> THEN <<>>
  ELSE InsertByDate(SortByDate(SubSeq(s, 1, Len(s) - 1)), s[Len(s)])

LastTsYearStart(acts, year, off) == LocalMidnight(year, off)

\* lines 99-107
LastTs(acts, year, off) ==
  LET year_acts == SortByDate(YearActs(acts, year))
  IN  IF year_acts = <<>> THEN LocalMidnight(year, off)
      ELSE year_acts[Len(year_acts)].start_date

ExtendWithReplaced(acts, new_data) == new_data

\* lines 90 and 118: all_activities.extend(..)
ExtendWith(acts, new_data) == acts \o new_data

NextPageStuck(p) == p

NextPageSkipping(p) == p + 2

\* line 162
NextPage(p) == p + 1

BreakResultDropped(acts) == <<>>

\* lines 158 and 163: break leaves the loop, the pages read so far are returned
BreakResult(acts) == acts

RealNewKeepAll(new_data, acts) == new_data

\* lines 113-114
RealNew(new_data, acts) ==
  SelectSeq(new_data, LAMBDA a : a.id \notin Ids(acts))

NeedsSaveNever(upd) == FALSE

NeedsSaveAlways(upd) == TRUE

\* line 124
NeedsSave(upd) == upd

FilterYearsNone(acts, ty) == acts

\* lines 136-139
FilterYears(acts, ty) ==
  SelectSeq(acts, LAMBDA a : YearOf(a.start_date) \in Range(ty))

\* ---------------------------------------------------------------------
\* state machine

\* a setup in which nothing is missing
CfgOk == [creds |-> TRUE, years_ok |-> TRUE, token_file |-> TRUE,
          expired |-> FALSE, refresh_ok |-> TRUE]

\* no test is running
TestOff == [pc |-> "off", rows |-> <<>>, result |-> 0]

Init ==
  /\ remote \in RemoteChoices
  /\ tz \in TZOffsets
  /\ edgeIncl \in BOOLEAN
  /\ remoteOrder \in {"asc", "desc"}
  /\ store_state = "absent"
  /\ store = <<>>
  /\ run = 0
  /\ pc = "idle"
  /\ target_years = <<>>
  /\ yi = 1
  /\ all_activities = <<>>
  /\ present_years = {}
  /\ current_year = 0
  /\ updated = FALSE
  /\ fkind = "none"
  /\ after_ts = 0
  /\ before_ts = 0
  /\ page = 1
  /\ activities = <<>>
  /\ filtered_data = <<>>
  /\ fetchLog = <<>>
  /\ fetched = <<>>
  /\ store0 = <<>>
  /\ wrote = FALSE
  /\ merged = 0
  /\ last_merge = [kind |-> "none", data |-> <<>>, k |-> 0, d |-> 0, grew |-> 0]
  /\ failed = FALSE
  /\ prevTargets = <<>>
  /\ prevFailed = FALSE
  /\ held = {}
  /\ partial = {}
  /\ blank = {}
  /\ reqLog = <<>>
  /\ load_status = "none"
  /\ cfg = CfgOk
  /\ ppc = "lib"
  /\ test = TestOff

\* maintain_archive, lines 53-75: load the archive, derive the years present
StartRun ==
  /\ \/ ppc \in {"lib", "pages"} /\ pc \in {"idle", "done"}
     \/ ppc = "archive" /\ pc = "idle"
  /\ run < MaxRuns
  /\ \E ty \in TargetChoices :
       LET loaded == LoadArchive(store_state, store)
           now_year == LocalYear(tz)
       IN  /\ target_years' = ty
           /\ all_activities' = loaded
           /\ present_years' = PresentYears(loaded)
           /\ current_year' = now_year
           /\ store0' = loaded
           /\ held' = held \cup
                {y \in Years : /\ y < now_year
                               /\ \E i \in DOMAIN loaded :
                                    loaded[i].start_date \div YearLen = y}
  /\ run' = run + 1
  /\ pc' = "loop"
  /\ yi' = 1
  /\ updated' = FALSE
  /\ filtered_data' = <<>>
  /\ fetchLog' = <<>>
  /\ fetched' = <<>>
  /\ wrote' = FALSE
  /\ merged' = 0
  /\ last_merge' = [kind |-> "none", data |-> <<>>, k |-> 0, d |-> 0, grew |-> 0]
  /\ failed' = FALSE
  /\ prevTargets' = target_years
  /\ prevFailed' = failed
  /\ load_status' = store_state
  /\ UNCHANGED <<envVars, fileVars, fetchVars, pipeVars, reqLog, partial,
                 blank>>

\* lines 80-83, and the fall-through of a year that matches no case
SkipYear ==
  /\ pc = "loop"
  /\ yi <= Len(target_years)
  /\ LET year == target_years[yi]
     IN  \/ CaseA(year, present_years, current_year)
         \/ (~CaseB(year, present_years) /\ ~CaseC(year, current_year))
  /\ yi' = yi + 1
  /\ UNCHANGED <<envVars, fileVars, fetchVars, obsVars, run, pc, target_years,
                 all_activities, present_years, current_year, updated,
                 filtered_data, pipeVars, reqLog, load_status>>

\* the observers of single page requests (reqLog, partial, blank) are kept in the
\* specifications whose properties read them
Observed == ppc # "lib"

\* the call of _fetch_pages(access_token, lo, hi), lines 148-150
BeginFetch(kind, year, lo, hi) ==
  /\ fkind' = kind
  /\ after_ts' = lo
  /\ before_ts' = hi
  /\ page' = 1
  /\ activities' = <<>>
  /\ pc' = "fetch"
  /\ fetchLog' = Append(fetchLog,
                   [year |-> year, kind |-> kind, after |-> lo, before |-> hi])
  /\ reqLog' = <<>>
  /\ UNCHANGED <<envVars, fileVars, run, target_years, yi, all_activities,
                 present_years, current_year, updated, filtered_data,
                 fetched, store0, wrote, merged, last_merge, failed,
                 prevTargets, prevFailed, held, partial, blank,
                 pipeVars, load_status>>

\* lines 86-88 with _fetch_year, lines 142-146
FullFetchStart ==
  /\ pc = "loop"
  /\ yi <= Len(target_years)
  /\ LET year == target_years[yi]
     IN  /\ ~CaseA(year, present_years, current_year)
         /\ CaseB(year, present_years)
         /\ BeginFetch("full", year, LocalMidnight(year, tz),
                       LocalMidnight(year + 1, tz))

\* lines 96-110
SyncStart ==
  /\ pc = "loop"
  /\ yi <= Len(target_years)
  /\ LET year == target_years[yi]
     IN  /\ ~CaseA(year, present_years, current_year)
         /\ ~CaseB(year, present_years)
         /\ CaseC(year, current_year)
         /\ ~SyncRaises(all_activities)
         /\ BeginFetch("sync", year, LastTs(all_activities, year, tz), Now)

\* the body the source returns for the page requested now, lines 152-157
Body ==
  PageOf(Listing(remote, remoteOrder, edgeIncl, after_ts, before_ts),
         page, PerPage)

\* the request sent now and what came back, lines 152-157
Request(status, body) ==
  [page |-> page, per_page |-> PerPage, after |-> after_ts,
   before |-> before_ts, status |-> status, body |-> body]

\* lines 89-93: the result of a full-year fetch is appended as it is
MergeFull(new_data) ==
  LET year == target_years[yi]
  IN  IF new_data # <<>>
      THEN /\ all_activities' = ExtendWith(all_activities, new_data)
           /\ present_years' = present_years \cup {year}
           /\ updated' = TRUE
      ELSE UNCHANGED <<all_activities, present_years, updated>>

\* lines 112-121: the result of an incremental fetch is deduplicated
MergeSync(new_data) ==
  LET real_new == RealNew(new_data, all_activities)
  IN  /\ IF real_new # <<>>
         THEN /\ all_activities' = ExtendWith(all_activities, real_new)
              /\ updated' = TRUE
         ELSE UNCHANGED <<all_activities, updated>>
      /\ UNCHANGED present_years

\* _fetch_pages returns new_data to the loop body, which merges it and
\* goes on to the next year
FetchReturn(new_data) ==
  /\ IF fkind = "full" THEN MergeFull(new_data) ELSE MergeSync(new_data)
  /\ fetched' = fetched \o new_data
  /\ merged' = merged + (Len(all_activities') - Len(all_activities))
  /\ last_merge' =
       [kind |-> fkind,
        data |-> new_data,
        k    |-> Len(new_data),
        d    |-> Cardinality({i \in DOMAIN new_data :
                                \E j \in DOMAIN all_activities :
                                   all_activities[j].id = new_data[i].id}),
        grew |-> Len(all_activities') - Len(all_activities)]
  /\ yi' = yi + 1
  /\ pc' = "loop"

\* lines 158-162: status 200 and a non-empty page
PageData ==
  /\ pc = "fetch"
  /\ Body # <<>>
  /\ activities' = activities \o Body
  /\ page' = NextPage(page)
  /\ reqLog' = IF Observed THEN Append(reqLog, Request(200, Body)) ELSE reqLog
  /\ UNCHANGED <<envVars, fileVars, obsVars, run, pc, target_years, yi,
                 all_activities, present_years, current_year, updated,
                 fkind, after_ts, before_ts, filtered_data, pipeVars,
                 load_status>>

\* the years whose full fetch has returned nothing, after this return
BlankAfter(new_data) ==
  IF Observed /\ fkind = "full" /\ new_data = <<>>
  THEN blank \cup {target_years[yi]}
  ELSE blank

\* line 160: status 200 and an empty page
PageEnd ==
  /\ pc = "fetch"
  /\ Body = <<>>
  /\ FetchReturn(BreakResult(activities))
  /\ blank' = BlankAfter(BreakResult(activities))
  /\ reqLog' = IF Observed THEN Append(reqLog, Request(200, <<>>)) ELSE reqLog
  /\ UNCHANGED <<envVars, fileVars, fetchVars, run, target_years,
                 current_year, filtered_data, fetchLog, store0, wrote,
                 failed, prevTargets, prevFailed, held, partial, pipeVars,
                 load_status>>

\* line 158: a status other than 200
PageError ==
  /\ pc = "fetch"
  /\ failed' = TRUE
  /\ partial' = IF /\ Observed
                   /\ fkind = "full"
                   /\ target_years[yi] # current_year
                   /\ activities # <<>>
                THEN partial \cup {target_years[yi]}
                ELSE partial
  /\ FetchReturn(BreakResult(activities))
  /\ blank' = BlankAfter(BreakResult(activities))
  /\ reqLog' = IF Observed THEN Append(reqLog, Request(500, <<>>)) ELSE reqLog
  /\ UNCHANGED <<envVars, fileVars, fetchVars, run, target_years,
                 current_year, filtered_data, fetchLog, store0, wrote,
                 prevTargets, prevFailed, held, pipeVars, load_status>>

\* lines 124-140 with updated set: sort, rewrite the file, filter, return
FinishSave ==
  /\ pc = "loop"
  /\ yi > Len(target_years)
  /\ NeedsSave(updated)
  /\ ~FilterRaises(all_activities)
  /\ LET sorted == SortByDate(all_activities)
     IN  /\ all_activities' = sorted
         /\ store' = sorted
         /\ filtered_data' = FilterYears(sorted, target_years)
  /\ store_state' = "ok"
  /\ wrote' = TRUE
  /\ pc' = "done"
  /\ UNCHANGED <<envVars, fetchVars, run, target_years, yi, present_years,
                 current_year, updated, fetchLog, fetched, store0, merged,
                 last_merge, failed, prevTargets, prevFailed, held, partial, blank,
                 pipeVars,
                 reqLog, load_status>>

\* lines 131-140 with updated unset: filter, return
FinishNoSave ==
  /\ pc = "loop"
  /\ yi > Len(target_years)
  /\ ~NeedsSave(updated)
  /\ ~FilterRaises(all_activities)
  /\ filtered_data' = FilterYears(all_activities, target_years)
  /\ pc' = "done"
  /\ UNCHANGED <<envVars, fileVars, fetchVars, run, target_years, yi,
                 all_activities, present_years, current_year, updated,
                 fetchLog, fetched, store0, wrote, merged, last_merge,
                 failed, prevTargets, prevFailed, held, partial, blank,
                 pipeVars, reqLog,
                 load_status>>

\* ---------------------------------------------------------------------
\* the per-year loop of lines 78-121 as a function of the loaded archive
\* and the list of years, for a source of which every fetch breaks off at
\* page e (e = 0: no request fails)

\* _fetch_pages(lo, hi): the pages before page e, or all of them
FetchPagesUpTo(lo, hi, e) ==
  LET list == Listing(remote, remoteOrder, edgeIncl, lo, hi)
      c == Min(PerPage, ServeCap)
  IN  IF e = 0 THEN list ELSE SubSeq(list, 1, Min((e - 1) * c, Len(list)))

\* one iteration of the loop; st = [all, present]
LoopBody(st, year, e) ==
  IF CaseA(year, st.present, LocalYear(tz)) THEN st
  ELSE IF CaseB(year, st.present)
  THEN LET new_data == FetchPagesUpTo(LocalMidnight(year, tz),
                                      LocalMidnight(year + 1, tz), e)
       IN  IF new_data # <<>>
           THEN [all |-> ExtendWith(st.all, new_data),
                 present |-> st.present \cup {year}]
           ELSE st
  ELSE IF CaseC(year, LocalYear(tz))
  THEN LET new_data == FetchPagesUpTo(LastTs(st.all, year, tz), Now, e)
           real_new == RealNew(new_data, st.all)
       IN  IF real_new # <<>>
           THEN [all |-> ExtendWith(st.all, real_new), present |-> st.present]
           ELSE st
  ELSE st

RECURSIVE LoopOver(_, _, _)
LoopOver(st, ty, e) ==
  IF ty = <<>> THEN st
  ELSE LoopOver(LoopBody(st, ty[1], e), Tail(ty), e)

\* all_activities at the end of the loop
LoopResult(loaded, ty, e) ==
  LoopOver([all |-> loaded, present |-> PresentYears(loaded)], ty, e).all

Next ==
  \/ StartRun
  \/ SkipYear
  \/ FullFetchStart
  \/ SyncStart
  \/ PageData
  \/ PageEnd
  \/ PageError
  \/ FinishSave
  \/ FinishNoSave

Spec == Init /\ [][Next]_vars

\* ---------------------------------------------------------------------
\* The save step of lines 126-130 at the grain of the file system:
\* open(archive_file, 'w') empties the file, json.dump then writes the
\* array, and the process may be killed in between.

\* lines 126-128: sort, open the file for writing
SaveOpen ==
  /\ pc = "loop"
  /\ yi > Len(target_years)
  /\ NeedsSave(updated)
  /\ all_activities' = SortByDate(all_activities)
  /\ store' = <<>>
  /\ store_state' = "corrupt"
  /\ wrote' = TRUE
  /\ pc' = "save"
  /\ UNCHANGED <<envVars, fetchVars, run, target_years, yi, present_years,
                 current_year, updated, filtered_data, fetchLog, fetched,
                 store0, merged, last_merge, failed, prevTargets, prevFailed,
                 held, partial, blank,
                 pipeVars, reqLog, load_status>>

\* lines 129-140: the array is written, the file closed, the list filtered
SaveDump ==
  /\ pc = "save"
  /\ store' = all_activities
  /\ store_state' = "ok"
  /\ filtered_data' = FilterYears(all_activities, target_years)
  /\ pc' = "done"
  /\ UNCHANGED <<envVars, fetchVars, run, target_years, yi, all_activities,
                 present_years, current_year, updated, fetchLog, fetched,
                 store0, wrote, merged, last_merge, failed, prevTargets,
                 prevFailed, held, partial, blank,
                 pipeVars, reqLog, load_status>>

\* the process is killed while json.dump has written n of the records:
\* the file ends inside the array
Kill ==
  /\ pc = "save"
  /\ \E n \in 0..(Len(all_activities) - 1) :
       store' = SubSeq(all_activities, 1, n)
  /\ store_state' = "corrupt"
  /\ pc' = "idle"
  /\ UNCHANGED <<envVars, fetchVars, run, target_years, yi, all_activities,
                 present_years, current_year, updated, filtered_data,
                 fetchLog, fetched, store0, wrote, merged, last_merge,
                 failed, prevTargets, prevFailed, held, partial, blank,
                 pipeVars, reqLog,
                 load_status>>

NextSave ==
  \/ StartRun
  \/ SkipYear
  \/ FullFetchStart
  \/ SyncStart
  \/ PageData
  \/ PageEnd
  \/ PageError
  \/ SaveOpen
  \/ SaveDump
  \/ Kill
  \/ FinishNoSave

\* what is in the file after an interrupted save does not depend on how the
\* source lists its records: one listing order, exclusive bounds
InitSave ==
  /\ remote \in RemoteChoices
  /\ tz \in TZOffsets
  /\ edgeIncl = FALSE
  /\ remoteOrder = "asc"
  /\ store = <<>>
  /\ store_state = "absent"
  /\ cfg = CfgOk
  /\ ppc = "lib"
  /\ test = TestOff
  /\ run = 0
  /\ pc = "idle"
  /\ target_years = <<>>
  /\ yi = 1
  /\ all_activities = <<>>
  /\ present_years = {}
  /\ current_year = LocalYear(tz)
  /\ updated = FALSE
  /\ fkind = "none"
  /\ after_ts = 0
  /\ before_ts = 0
  /\ page = 1
  /\ activities = <<>>
  /\ filtered_data = <<>>
  /\ fetchLog = <<>>
  /\ fetched = <<>>
  /\ store0 = <<>>
  /\ wrote = FALSE
  /\ merged = 0
  /\ last_merge = [kind |-> "none", data |-> <<>>, k |-> 0, d |-> 0,
                   grew |-> 0]
  /\ failed = FALSE
  /\ prevTargets = <<>>
  /\ prevFailed = FALSE
  /\ held = {}
  /\ partial = {}
  /\ blank = {}
  /\ reqLog = <<>>
  /\ load_status = "none"

SpecSave == InitSave /\ [][NextSave]_vars

\* ---------------------------------------------------------------------
\* main() of run_pipeline.py: configuration, token, gear, then one call of
\* maintain_archive.  cfg is what the process finds when it starts.

Configs ==
  [creds : BOOLEAN, years_ok : BOOLEAN, token_file : BOOLEAN,
   expired : BOOLEAN, refresh_ok : BOOLEAN]

\* validate_config, config.py lines 32-36
ConfigValid(c) == c.creds /\ c.years_ok

\* get_access_token, lines 8-31: what the call raises or returns
TokenResultUnchecked(c) ==
  IF ~c.token_file THEN "FileNotFoundError" ELSE "token"

TokenResult(c) ==
  IF ~c.token_file THEN "FileNotFoundError"
  ELSE IF c.expired /\ ~c.refresh_ok THEN "ConnectionError"
  ELSE "token"

\* an archive file left by an earlier complete run, or none
ArchiveChoices(rem, ord, incl, off) ==
  {<<>>} \cup
  {SortByDate(FilterYears(Listing(rem, ord, incl,
                                  LocalMidnight(y, off),
                                  LocalMidnight(y + 1, off)), <<y>>)) :
     y \in Years}

InitPipeline ==
  /\ remote \in RemoteChoices
  /\ tz \in TZOffsets
  /\ edgeIncl \in BOOLEAN
  /\ remoteOrder \in {"asc", "desc"}
  /\ store \in ArchiveChoices(remote, remoteOrder, edgeIncl, tz)
  /\ store_state = IF store = <<>> THEN "absent" ELSE "ok"
  /\ cfg \in Configs
  /\ ppc = "config"
  /\ test = TestOff
  /\ run = 0
  /\ pc = "idle"
  /\ target_years = <<>>
  /\ yi = 1
  /\ all_activities = <<>>
  /\ present_years = {}
  /\ current_year = LocalYear(tz)
  /\ updated = FALSE
  /\ fkind = "none"
  /\ after_ts = 0
  /\ before_ts = 0
  /\ page = 1
  /\ activities = <<>>
  /\ filtered_data = <<>>
  /\ fetchLog = <<>>
  /\ fetched = <<>>
  /\ store0 = <<>>
  /\ wrote = FALSE
  /\ merged = 0
  /\ last_merge = [kind |-> "none", data |-> <<>>, k |-> 0, d |-> 0,
                   grew |-> 0]
  /\ failed = FALSE
  /\ prevTargets = <<>>
  /\ prevFailed = FALSE
  /\ held = {}
  /\ partial = {}
  /\ blank = {}
  /\ reqLog = <<>>
  /\ load_status = "none"

\* a step of main() outside maintain_archive
PipelineStep(to) ==
  /\ ppc' = to
  /\ UNCHANGED <<envVars, fileVars, fetchVars, obsVars, run, pc,
                 target_years, yi, all_activities, present_years,
                 current_year, updated, filtered_data, reqLog, load_status,
                 cfg, test>>

\* run_pipeline.py lines 10, 13-15
ValidateConfig ==
  /\ ppc = "config"
  /\ PipelineStep(IF ConfigValid(cfg) THEN "auth" ELSE "exit1")

\* run_pipeline.py lines 11, 13-15
GetAccessToken ==
  /\ ppc = "auth"
  /\ PipelineStep(IF TokenResult(cfg) = "token" THEN "gear" ELSE "exit1")

\* run_pipeline.py line 12: a status other than 200 gives an empty gear map
FetchActiveGear ==
  /\ ppc = "gear"
  /\ PipelineStep("archive")

\* run_pipeline.py lines 26-37, after maintain_archive has returned
PipelineComplete ==
  /\ ppc = "archive"
  /\ pc = "done"
  /\ PipelineStep("exit0")

NextPipeline ==
  \/ ValidateConfig
  \/ GetAccessToken
  \/ FetchActiveGear
  \/ StartRun
  \/ SkipYear
  \/ FullFetchStart
  \/ SyncStart
  \/ PageData
  \/ PageEnd
  \/ PageError
  \/ FinishSave
  \/ FinishNoSave
  \/ PipelineComplete

SpecPipeline == InitPipeline /\ [][NextPipeline]_vars

\* ---------------------------------------------------------------------
\* tests/test_process.py: the test imports calculate_annual_stats from
\* process_data and calls it on a table of rows.

\* the names process_data.py defines, lines 4, 34 and 50
ProcessDataNames ==
  {"process_activities", "_determine_activity_type", "summarize_stats"}

\* the miles values of the test's table, line 7
MilesChoices == {10, 20, 30}

TestRows == [miles : MilesChoices, year : Years]

\* tables of up to MaxRows rows
TestTables ==
  UNION {[1..n -> TestRows] : n \in 0..MaxRows}

InitTest ==
  /\ test \in {[pc |-> "ready", rows |-> t, result |-> 0] : t \in TestTables}
  /\ ppc = "test"
  /\ cfg = CfgOk
  /\ remote = <<>>
  /\ tz = 0
  /\ edgeIncl = FALSE
  /\ remoteOrder = "asc"
  /\ store = <<>>
  /\ store_state = "absent"
  /\ run = 0
  /\ pc = "idle"
  /\ target_years = <<>>
  /\ yi = 1
  /\ all_activities = <<>>
  /\ present_years = {}
  /\ current_year = LocalYear(tz)
  /\ updated = FALSE
  /\ fkind = "none"
  /\ after_ts = 0
  /\ before_ts = 0
  /\ page = 1
  /\ activities = <<>>
  /\ filtered_data = <<>>
  /\ fetchLog = <<>>
  /\ fetched = <<>>
  /\ store0 = <<>>
  /\ wrote = FALSE
  /\ merged = 0
  /\ last_merge = [kind |-> "none", data |-> <<>>, k |-> 0, d |-> 0,
                   grew |-> 0]
  /\ failed = FALSE
  /\ prevTargets = <<>>
  /\ prevFailed = FALSE
  /\ held = {}
  /\ partial = {}
  /\ blank = {}
  /\ reqLog = <<>>
  /\ load_status = "none"

\* test_process.py line 2: the import of a name the module does not define
\* raises ImportError when the test module is collected; lines 12-15 are
\* reached only if the name exists
RunTest ==
  /\ test.pc = "ready"
  /\ "calculate_annual_stats" \notin ProcessDataNames
  /\ test' = [test EXCEPT !.pc = "ImportError"]
  /\ UNCHANGED <<envVars, fileVars, fetchVars, obsVars, run, pc,
                 target_years, yi, all_activities, present_years,
                 current_year, updated, filtered_data, reqLog, load_status,
                 cfg, ppc>>

NextTest == RunTest

SpecTest == InitTest /\ [][NextTest]_vars

\* ---------------------------------------------------------------------
\* A call of maintain_archive that has started keeps running: every page
\* request gets its response and the interpreter goes on to the next
\* statement.  When the next call is made is left open.
RunStep ==
  \/ SkipYear
  \/ FullFetchStart
  \/ SyncStart
  \/ PageData
  \/ PageEnd
  \/ PageError
  \/ FinishSave
  \/ FinishNoSave

\* the last call of a behaviour, over the archive an earlier complete run
\* left or over none
InitFair ==
  /\ remote \in RemoteChoices
  /\ tz \in TZOffsets
  /\ edgeIncl \in BOOLEAN
  /\ remoteOrder \in {"asc", "desc"}
  /\ store \in ArchiveChoices(remote, remoteOrder, edgeIncl, tz)
  /\ store_state = IF store = <<>> THEN "absent" ELSE "ok"
  /\ cfg = CfgOk
  /\ ppc = "pages"
  /\ test = TestOff
  /\ run = MaxRuns - 1
  /\ pc = "idle"
  /\ target_years = <<>>
  /\ yi = 1
  /\ all_activities = <<>>
  /\ present_years = {}
  /\ current_year = LocalYear(tz)
  /\ updated = FALSE
  /\ fkind = "none"
  /\ after_ts = 0
  /\ before_ts = 0
  /\ page = 1
  /\ activities = <<>>
  /\ filtered_data = <<>>
  /\ fetchLog = <<>>
  /\ fetched = <<>>
  /\ store0 = <<>>
  /\ wrote = FALSE
  /\ merged = 0
  /\ last_merge = [kind |-> "none", data |-> <<>>, k |-> 0, d |-> 0,
                   grew |-> 0]
  /\ failed = FALSE
  /\ prevTargets = <<>>
  /\ prevFailed = FALSE
  /\ held = {}
  /\ partial = {}
  /\ blank = {}
  /\ reqLog = <<>>
  /\ load_status = "none"

SpecFair == InitFair /\ [][Next]_vars /\ WF_vars(RunStep)

\* one call with the page requests observed
SpecCall == InitFair /\ [][Next]_vars

\* the runs of Spec with the page requests observed
InitPages ==
  /\ remote \in RemoteChoices
  /\ tz \in TZOffsets
  /\ edgeIncl \in BOOLEAN
  /\ remoteOrder \in {"asc", "desc"}
  /\ store = <<>>
  /\ store_state = "absent"
  /\ cfg = CfgOk
  /\ ppc = "pages"
  /\ test = TestOff
  /\ run = 0
  /\ pc = "idle"
  /\ target_years = <<>>
  /\ yi = 1
  /\ all_activities = <<>>
  /\ present_years = {}
  /\ current_year = LocalYear(tz)
  /\ updated = FALSE
  /\ fkind = "none"
  /\ after_ts = 0
  /\ before_ts = 0
  /\ page = 1
  /\ activities = <<>>
  /\ filtered_data = <<>>
  /\ fetchLog = <<>>
  /\ fetched = <<>>
  /\ store0 = <<>>
  /\ wrote = FALSE
  /\ merged = 0
  /\ last_merge = [kind |-> "none", data |-> <<>>, k |-> 0, d |-> 0,
                   grew |-> 0]
  /\ failed = FALSE
  /\ prevTargets = <<>>
  /\ prevFailed = FALSE
  /\ held = {}
  /\ partial = {}
  /\ blank = {}
  /\ reqLog = <<>>
  /\ load_status = "none"

SpecPages == InitPages /\ [][Next]_vars

\* ---------------------------------------------------------------------
\* strava_stats.py, fetch_activities_for_year, lines 90-106: the pagination
\* of the standalone script.  It reads response.json() whatever the status.

\* what response.json() gives for a failed request: the fault object of the
\* API, an empty body, or no JSON at all
ErrorBodies == {"object", "empty", "not_json"}

\* activities.extend(data) with data a dict appends the keys of the dict
ErrorKeys == <<[key |-> "message"], [key |-> "errors"]>>

\* the failed requests among the requests of the call
Errors(log) == Cardinality({i \in DOMAIN log : log[i].status # 200})

InitScript ==
  /\ remote \in RemoteChoices
  /\ tz \in TZOffsets
  /\ edgeIncl \in BOOLEAN
  /\ remoteOrder \in {"asc", "desc"}
  /\ store = <<>>
  /\ store_state = "absent"
  /\ cfg = CfgOk
  /\ ppc = "script"
  /\ test = TestOff
  /\ run = 0
  /\ pc = "idle"
  /\ target_years = <<>>
  /\ yi = 1
  /\ all_activities = <<>>
  /\ present_years = {}
  /\ current_year = LocalYear(tz)
  /\ updated = FALSE
  /\ fkind = "none"
  /\ after_ts = 0
  /\ before_ts = 0
  /\ page = 1
  /\ activities = <<>>
  /\ filtered_data = <<>>
  /\ fetchLog = <<>>
  /\ fetched = <<>>
  /\ store0 = <<>>
  /\ wrote = FALSE
  /\ merged = 0
  /\ last_merge = [kind |-> "none", data |-> <<>>, k |-> 0, d |-> 0,
                   grew |-> 0]
  /\ failed = FALSE
  /\ prevTargets = <<>>
  /\ prevFailed = FALSE
  /\ held = {}
  /\ partial = {}
  /\ blank = {}
  /\ reqLog = <<>>
  /\ load_status = "none"

\* what a step of the script leaves alone
ScriptFrame ==
  UNCHANGED <<envVars, fileVars, obsVars, pipeVars, run, target_years, yi,
              all_activities, present_years, current_year, updated,
              filtered_data, load_status, fkind>>

\* lines 90-95
ScriptStart ==
  /\ ppc = "script"
  /\ pc = "idle"
  /\ \E year \in Years :
       /\ after_ts' = LocalMidnight(year, tz)
       /\ before_ts' = LocalMidnight(year + 1, tz)
  /\ page' = 1
  /\ activities' = <<>>
  /\ reqLog' = <<>>
  /\ pc' = "sfetch"
  /\ ScriptFrame

\* lines 99-105 with status 200 and a non-empty page
ScriptPageData ==
  /\ pc = "sfetch"
  /\ Body # <<>>
  /\ activities' = activities \o Body
  /\ page' = NextPage(page)
  /\ reqLog' = Append(reqLog, Request(200, Body))
  /\ ScriptFrame
  /\ UNCHANGED <<pc, after_ts, before_ts>>

\* lines 99-102 with status 200 and an empty page
ScriptPageEnd ==
  /\ pc = "sfetch"
  /\ Body = <<>>
  /\ reqLog' = Append(reqLog, Request(200, <<>>))
  /\ pc' = "sdone"
  /\ ScriptFrame
  /\ UNCHANGED <<page, activities, after_ts, before_ts>>

\* lines 99-105 with a status other than 200: the status is not looked at
ScriptPageError ==
  /\ pc = "sfetch"
  /\ Errors(reqLog) < MaxErr
  /\ \E b \in ErrorBodies :
       \/ /\ b = "object"
          /\ activities' = activities \o ErrorKeys
          /\ page' = NextPage(page)
          /\ reqLog' = Append(reqLog, Request(500, ErrorKeys))
          /\ pc' = pc
       \/ /\ b = "empty"
          /\ reqLog' = Append(reqLog, Request(500, <<>>))
          /\ pc' = "sdone"
          /\ UNCHANGED <<page, activities>>
       \/ /\ b = "not_json"
          /\ reqLog' = Append(reqLog, Request(500, <<>>))
          /\ pc' = "sraise"
          /\ UNCHANGED <<page, activities>>
  /\ ScriptFrame
  /\ UNCHANGED <<after_ts, before_ts>>

NextScript ==
  \/ ScriptStart
  \/ ScriptPageData
  \/ ScriptPageEnd
  \/ ScriptPageError

SpecScript == InitScript /\ [][NextScript]_vars

\* ---------------------------------------------------------------------
\* maintain_archive over an archive file that holds a record without a
\* start_date.

\* what an exception in maintain_archive leaves alone
RaiseFrame ==
  UNCHANGED <<envVars, fetchVars, obsVars, pipeVars, run, target_years, yi,
              present_years, current_year, updated, filtered_data, reqLog,
              load_status>>

\* line 99 in the sync branch: KeyError
SyncRaise ==
  /\ pc = "loop"
  /\ yi <= Len(target_years)
  /\ LET year == target_years[yi]
     IN  /\ ~CaseA(year, present_years, current_year)
         /\ ~CaseB(year, present_years)
         /\ CaseC(year, current_year)
         /\ SyncRaises(all_activities)
  /\ pc' = "raised"
  /\ RaiseFrame
  /\ UNCHANGED <<fileVars, all_activities>>

\* lines 124-138 with updated set: the file is rewritten, then the filter
\* raises ValueError
FinishSaveRaise ==
  /\ pc = "loop"
  /\ yi > Len(target_years)
  /\ NeedsSave(updated)
  /\ FilterRaises(all_activities)
  /\ LET sorted == SortByDate(all_activities)
     IN  /\ all_activities' = sorted
         /\ store' = sorted
  /\ store_state' = "ok"
  /\ pc' = "raised"
  /\ UNCHANGED <<envVars, fetchVars, pipeVars, run, target_years, yi,
                 present_years, current_year, updated, filtered_data, reqLog,
                 load_status, fetchLog, fetched, store0, merged, last_merge,
                 failed, prevTargets, prevFailed, held, partial, blank>>
  /\ wrote' = TRUE

\* lines 131-138 with updated unset: the filter raises ValueError
FinishNoSaveRaise ==
  /\ pc = "loop"
  /\ yi > Len(target_years)
  /\ ~NeedsSave(updated)
  /\ FilterRaises(all_activities)
  /\ pc' = "raised"
  /\ RaiseFrame
  /\ UNCHANGED <<fileVars, all_activities>>

\* the archive file: what an earlier run left, with or without one record
\* that has no start_date in front (the empty string sorts first)
DatelessChoices(rem, ord, incl, off) ==
  {front \o arch :
     front \in {<<>>, <<[id |-> 0, start_date |-> -1]>>,
                <<[id |-> 0, start_date |-> -2]>>},
     arch \in ArchiveChoices(rem, ord, incl, off)}

InitDateless ==
  /\ remote \in RemoteChoices
  /\ tz \in TZOffsets
  /\ edgeIncl = FALSE
  /\ remoteOrder = "asc"
  /\ store \in DatelessChoices(remote, remoteOrder, edgeIncl, tz)
  /\ store_state = IF store = <<>> THEN "absent" ELSE "ok"
  /\ cfg = CfgOk
  /\ ppc = "lib"
  /\ test = TestOff
  /\ run = MaxRuns - 1
  /\ pc = "idle"
  /\ target_years = <<>>
  /\ yi = 1
  /\ all_activities = <<>>
  /\ present_years = {}
  /\ current_year = LocalYear(tz)
  /\ updated = FALSE
  /\ fkind = "none"
  /\ after_ts = 0
  /\ before_ts = 0
  /\ page = 1
  /\ activities = <<>>
  /\ filtered_data = <<>>
  /\ fetchLog = <<>>
  /\ fetched = <<>>
  /\ store0 = <<>>
  /\ wrote = FALSE
  /\ merged = 0
  /\ last_merge = [kind |-> "none", data |-> <<>>, k |-> 0, d |-> 0,
                   grew |-> 0]
  /\ failed = FALSE
  /\ prevTargets = <<>>
  /\ prevFailed = FALSE
  /\ held = {}
  /\ partial = {}
  /\ blank = {}
  /\ reqLog = <<>>
  /\ load_status = "none"

NextDateless ==
  \/ StartRun
  \/ SkipYear
  \/ FullFetchStart
  \/ SyncStart
  \/ SyncRaise
  \/ PageData
  \/ PageEnd
  \/ PageError
  \/ FinishSave
  \/ FinishSaveRaise
  \/ FinishNoSave
  \/ FinishNoSaveRaise

SpecDateless == InitDateless /\ [][NextDateless]_vars

\* One run over an archive that an earlier run left, against a source that
\* holds one activity more than MaxId.
InitOrder ==
  /\ remote \in {s \in [1..(MaxId + 1) -> Ticks] :
                    \A i, j \in DOMAIN s : i < j => s[i] <= s[j]}
  /\ tz \in TZOffsets
  /\ edgeIncl \in BOOLEAN
  /\ remoteOrder \in {"asc", "desc"}
  /\ store \in {SortByDate(LoopResult(<<>>, ty0, e0)) :
                   ty0 \in TargetChoices, e0 \in 0..(MaxId + 1)}
  /\ store_state = IF store = <<>> THEN "absent" ELSE "ok"
  /\ run = MaxRuns - 1
  /\ pc = "idle"
  /\ target_years = <<>>
  /\ yi = 1
  /\ all_activities = <<>>
  /\ present_years = {}
  /\ current_year = 0
  /\ updated = FALSE
  /\ fkind = "none"
  /\ after_ts = 0
  /\ before_ts = 0
  /\ page = 1
  /\ activities = <<>>
  /\ filtered_data = <<>>
  /\ fetchLog = <<>>
  /\ fetched = <<>>
  /\ store0 = <<>>
  /\ wrote = FALSE
  /\ merged = 0
  /\ last_merge = [kind |-> "none", data |-> <<>>, k |-> 0, d |-> 0, grew |-> 0]
  /\ failed = FALSE
  /\ prevTargets = <<>>
  /\ prevFailed = FALSE
  /\ held = {}
  /\ partial = {}
  /\ blank = {}
  /\ reqLog = <<>>
  /\ load_status = "none"
  /\ cfg = CfgOk
  /\ ppc = "lib"
  /\ test = TestOff

SpecOrder == InitOrder /\ [][Next]_vars

TypeOK ==
  /\ pc \in {"idle", "loop", "fetch", "save", "done",
            "raised", "sfetch", "sdone", "sraise"}
  /\ run \in 0..MaxRuns
  /\ store_state \in {"absent", "ok", "corrupt"}
  /\ yi \in 1..3

\* ---------------------------------------------------------------------
\* properties

NoDup(s) == \A i, j \in DOMAIN s : i # j => s[i].id # s[j].id

IsSorted(s) ==
  \A i \in DOMAIN s : i < Len(s) => s[i].start_date <= s[i + 1].start_date

Count(s, r) == Cardinality({i \in DOMAIN s : s[i] = r})

MaxOf(S) == CHOOSE m \in S : \A x \in S : x <= m

DatesOfYear(s, y) ==
  {s[i].start_date : i \in {j \in DOMAIN s : s[j].start_date \div YearLen = y}}

\* C1: a run that loaded an archive without duplicate ids never holds two
\* records with the same id, neither in memory nor in the archive file.
C1_NoDuplicateIds ==
  NoDup(store0) => (NoDup(all_activities) /\ NoDup(store))

\* C2: whenever the result of a fetch (full-year or incremental) is merged,
\* no appended record has an id the in-memory archive already held.
C2_MergeDropsKnownIds ==
  [][(pc = "fetch" /\ pc' = "loop") =>
       \A j \in (Len(all_activities) + 1) .. Len(all_activities') :
          all_activities'[j].id \notin Ids(all_activities)]_vars

\* C3: a run that follows a run with the same target years against the same
\* remote data, no page request of either having failed, merges nothing,
\* writes nothing and ends with the archive the first run left.
C3_Idempotence ==
  (pc = "done" /\ run >= 2 /\ target_years = prevTargets
     /\ ~failed /\ ~prevFailed)
  => (~updated /\ ~wrote /\ store = store0 /\ all_activities = store0)

\* C4: a run has rewritten the archive file when it returns if and only if
\* it merged at least one record, and as long as a run has not written the
\* file the file holds what it held when the run loaded it.
C4_PersistencePolicy ==
  /\ (pc = "done" => (wrote <=> merged > 0))
  /\ (~wrote => store = store0)
  /\ (pc = "done" /\ merged = 0 => store = store0)

C4_Witness ==
  /\ pc = "done" /\ run = 2 /\ merged = 0 /\ ~wrote
  /\ fetchLog # <<>> /\ store # <<>> /\ store = store0

\* C5: an archive file that has been written holds its records in
\* non-decreasing order of start_date.
C5_SortInvariant ==
  store_state = "ok" => IsSorted(store)

C5_Witness ==
  /\ pc = "done" /\ wrote /\ Len(store) >= 2
  /\ \E i \in DOMAIN fetched :
       i < Len(fetched) /\ fetched[i].start_date > fetched[i + 1].start_date
  /\ store[1].start_date < store[Len(store)].start_date

\* C6: the returned list holds records of target years only, holds every
\* archive record of a target year as often as the archive does, and the
\* archive keeps the loaded records of every year.
C6_OutputScoping ==
  pc = "done" =>
    /\ \A j \in DOMAIN filtered_data :
         (filtered_data[j].start_date \div YearLen) \in Range(target_years)
    /\ \A i \in DOMAIN all_activities :
         LET r == all_activities[i]
         IN  (r.start_date \div YearLen) \in Range(target_years)
               => Count(filtered_data, r) = Count(all_activities, r)
    /\ \A i \in DOMAIN filtered_data :
         Count(all_activities, filtered_data[i]) > 0
    /\ \A i \in DOMAIN store0 :
         Count(all_activities, store0[i]) >= Count(store0, store0[i])

C6_Witness ==
  /\ pc = "done"
  /\ filtered_data # <<>>
  /\ \E i \in DOMAIN all_activities :
       (all_activities[i].start_date \div YearLen) \notin Range(target_years)
  /\ Len(filtered_data) < Len(all_activities)

C8_MissingYearFullFetch ==
  (pc = "done" /\ store0 = <<>> /\ Len(target_years) = 1)
  => /\ Len(fetchLog) = 1
     /\ fetchLog[1].kind = "full"
     /\ fetchLog[1].year = target_years[1]
     /\ fetchLog[1].before - fetchLog[1].after = YearLen
     /\ (fetched # <<>> => target_years[1] \in present_years)
     /\ Range(all_activities) = Range(fetched)
     /\ Range(filtered_data) = Range(fetched)

\* C9: merging the k records of an incremental fetch, d of which carry an
\* id the archive already holds, makes the archive grow by k - d records.
C9_SyncDedup ==
  last_merge.kind = "sync" =>
    last_merge.grew = last_merge.k - last_merge.d

C9_Witness ==
  /\ last_merge.kind = "sync"
  /\ last_merge.k >= 2
  /\ last_merge.d >= 1
  /\ last_merge.grew >= 1

\* C10: a target year that is the current year and has records in the
\* loaded archive gets exactly one fetch, an incremental one, from the
\* latest start_date among the archive's records of that year up to now.
C10_SyncRange ==
  /\ [][(pc = "loop" /\ pc' = "fetch" /\ fkind' = "sync") =>
          /\ after_ts' = MaxOf(DatesOfYear(all_activities, target_years[yi]))
          /\ before_ts' = Now]_vars
  /\ [](pc = "done" =>
          \A y \in Range(target_years) :
             (y = current_year /\ DatesOfYear(store0, y) # {}) =>
                /\ Cardinality({i \in DOMAIN fetchLog :
                                   fetchLog[i].year = y}) = 1
                /\ \A i \in DOMAIN fetchLog :
                     fetchLog[i].year = y => fetchLog[i].kind = "sync")

C10_Witness ==
  /\ pc = "done"
  /\ \E i \in DOMAIN fetchLog :
       /\ fetchLog[i].kind = "sync"
       /\ fetchLog[i].after > LocalMidnight(fetchLog[i].year, tz) + 1
       /\ Cardinality(DatesOfYear(store0, fetchLog[i].year)) >= 2

\* the loop function gives what the steps of a run without a failed
\* request give
LoopAgrees ==
  (pc = "loop" /\ yi > Len(target_years) /\ ~failed)
    => all_activities = LoopResult(store0, target_years, 0)

SameYears(ty1, ty2) == Range(ty1) = Range(ty2)

\* order independence when no request fails
OrderIndependenceNoFailure ==
  (pc = "loop" /\ yi = 1) =>
    \A ty2 \in TargetChoices :
       SameYears(ty2, target_years) =>
          Range(LoopResult(all_activities, ty2, 0))
            = Range(LoopResult(all_activities, target_years, 0))

\* C11: for the archive a run has loaded and the responses of the remote
\* source fixed (every fetch is answered in full, or every fetch breaks off
\* at the same page e), every ordering of the run's target years ends the
\* loop with the same set of records.
C11_OrderIndependence ==
  (pc = "loop" /\ yi = 1) =>
    \A e \in 0..(MaxId + 1) : \A ty2 \in TargetChoices :
       SameYears(ty2, target_years) =>
          Range(LoopResult(all_activities, ty2, e))
            = Range(LoopResult(all_activities, target_years, e))

\* C12: at every point the archive file holds a complete archive: the one
\* the run loaded as long as the run has not written, the new sorted one
\* once it has; it is never empty or cut off.
C12_AtomicRewrite ==
  /\ store_state # "corrupt"
  /\ ~wrote => store = store0
  /\ wrote => (store = all_activities /\ IsSorted(store))

\* C13: a run that found an unparseable archive file starts from the empty
\* archive, issues one full-year fetch for every target year, in order, and
\* returns the fetched records of the target years.
C13_CorruptRecovery ==
  load_status = "corrupt" =>
    /\ store0 = <<>>
    /\ pc = "loop" /\ yi = 1 => (all_activities = <<>> /\ present_years = {})
    /\ \A i \in DOMAIN fetchLog :
         fetchLog[i].kind = "full" /\ fetchLog[i].year = target_years[i]
    /\ pc \in {"save", "done"} => Len(fetchLog) = Len(target_years)
    /\ pc = "done" =>
         /\ \A j \in DOMAIN filtered_data :
              /\ Count(fetched, filtered_data[j]) > 0
              /\ (filtered_data[j].start_date \div YearLen)
                    \in Range(target_years)
         /\ \A j \in DOMAIN fetched :
              (fetched[j].start_date \div YearLen) \in Range(target_years)
                => Count(filtered_data, fetched[j]) > 0

C13_Witness ==
  /\ load_status = "corrupt"
  /\ pc = "done"
  /\ Len(target_years) = 2
  /\ Len(fetchLog) = 2
  /\ filtered_data # <<>>

\* the records of the pages of a request log, in the order received
RECURSIVE Bodies(_)
Bodies(log) ==
  IF log = <<>> THEN <<>> ELSE log[1].body \o Bodies(Tail(log))

\* the last fetch of this run ended on a status other than 200
EndedOnError ==
  /\ pc # "fetch"
  /\ fetchLog # <<>>
  /\ reqLog # <<>>
  /\ reqLog[Len(reqLog)].status # 200

\* C14: when a page request of a fetch returns a non-success status, it is
\* the last request of that fetch, the fetch returns the records of all
\* earlier pages, the loop merges them (as they are for a full fetch, minus
\* the known ids for a sync), goes on to the next target year, and the run
\* ends with every target year skipped as present or fetched.
C14_PartialFetchOnError ==
  /\ [][(pc = "fetch" /\ reqLog' # reqLog /\
          reqLog'[Len(reqLog')].status # 200) =>
            /\ pc' = "loop"
            /\ yi' = yi + 1
            /\ run' = run
            /\ reqLog' = Append(reqLog, Request(500, <<>>))
            /\ last_merge'.data = activities
            /\ \A r \in Range(activities) :
                 Count(all_activities', r) > 0]_vars
  /\ [](/\ \A i \in DOMAIN reqLog :
              reqLog[i].status # 200 => i = Len(reqLog)
        /\ EndedOnError =>
              /\ last_merge.data = Bodies(reqLog)
              /\ last_merge.kind = "full" =>
                    last_merge.grew = Len(last_merge.data)
              /\ last_merge.kind = "sync" =>
                    last_merge.grew = last_merge.k - last_merge.d
        /\ pc = "done" =>
              \A i \in DOMAIN target_years :
                 \/ \E j \in DOMAIN fetchLog :
                       fetchLog[j].year = target_years[i]
                 \/ /\ target_years[i] \in PresentYears(store0)
                    /\ target_years[i] # current_year)

C14_Witness ==
  /\ EndedOnError
  /\ pc = "loop"
  /\ yi <= Len(target_years)
  /\ Len(reqLog) >= 2
  /\ last_merge.grew >= 1

\* C16: a fetch asks for the pages 1, 2, 3, ... in order, each with
\* per_page 200 and the bounds of the call, only its last request can be
\* empty or failed, what it has collected and what it returns is the
\* concatenation of the pages received, and a new call starts at page 1.
C16_PaginationProtocol ==
  /\ \A i \in DOMAIN reqLog :
       /\ reqLog[i].page = i
       /\ reqLog[i].per_page = PerPage
       /\ reqLog[i].after = after_ts
       /\ reqLog[i].before = before_ts
       /\ i < Len(reqLog) => (reqLog[i].status = 200 /\ reqLog[i].body # <<>>)
  /\ pc = "fetch" =>
       /\ page = Len(reqLog) + 1
       /\ activities = Bodies(reqLog)
       /\ \A i \in DOMAIN reqLog : reqLog[i].body # <<>>
       /\ after_ts = fetchLog[Len(fetchLog)].after
       /\ before_ts = fetchLog[Len(fetchLog)].before
  /\ (pc # "fetch" /\ reqLog # <<>>) => reqLog[Len(reqLog)].body = <<>>
  /\ (pc # "fetch" /\ fetchLog # <<>>) => last_merge.data = Bodies(reqLog)

C16_Witness ==
  /\ pc = "loop"
  /\ Len(fetchLog) >= 2
  /\ Len(reqLog) >= 3
  /\ reqLog[Len(reqLog)].status = 200

\* C17: the sequence a run returns is in ascending start_date order, in
\* runs that merged records and in runs that merged nothing.
C17_OutputOrdering ==
  pc = "done" => IsSorted(filtered_data)

C17_Witness ==
  /\ pc = "done"
  /\ run = 2
  /\ ~updated
  /\ Len(filtered_data) >= 2
  /\ filtered_data[1].start_date < filtered_data[Len(filtered_data)].start_date

\* the setup failures the claim C15 names
SetupFails(c) ==
  \/ ~c.creds
  \/ ~c.years_ok
  \/ ~c.token_file
  \/ (c.expired /\ ~c.refresh_ok)

\* C15: with missing credentials, no valid target year, a missing token
\* file or a refused refresh, the pipeline never gets past the setup steps,
\* can only end with exit status 1, issues no fetch and no page request,
\* and neither loads nor writes the archive file.
C15_SetupFailuresFatal ==
  /\ [][SetupFails(cfg) =>
          UNCHANGED <<store, store_state, run, pc, fetchLog, reqLog,
                      load_status, wrote>>]_vars
  /\ [](SetupFails(cfg) =>
          /\ ppc \in {"config", "auth", "exit1"}
          /\ run = 0
          /\ pc = "idle"
          /\ fetchLog = <<>>
          /\ reqLog = <<>>
          /\ load_status = "none"
          /\ ~wrote
          /\ ~ENABLED NextPipeline => ppc = "exit1")

C15_Witness ==
  /\ ppc = "exit1"
  /\ cfg.creds
  /\ cfg.years_ok
  /\ cfg.token_file
  /\ cfg.expired
  /\ ~cfg.refresh_ok
  /\ store # <<>>

\* the sum of the miles column of a table
RECURSIVE SumMiles(_)
SumMiles(rows) ==
  IF rows = <<>> THEN 0 ELSE rows[1].miles + SumMiles(Tail(rows))

\* C18: once the test has run, calculate_annual_stats has returned and its
\* result is the sum of the miles of the rows.
C18_AnnualStatsSum ==
  test.pc \notin {"off", "ready"} =>
    /\ test.pc = "returned"
    /\ test.result = SumMiles(test.rows)

\* C19: when the full fetch of a past year breaks off on an error after at
\* least one page, the records of the earlier pages are merged and the
\* archive is saved with them, and from then on no run starts a fetch for
\* that year.
C19_PartialCountsAsComplete ==
  /\ [][partial' # partial =>
          /\ updated'
          /\ \A r \in Range(activities) : Count(all_activities', r) > 0]_vars
  /\ [](/\ (pc = "done" /\ updated) => (wrote /\ store = all_activities)
        /\ pc = "fetch" => fetchLog[Len(fetchLog)].year \notin partial)

\* no fetch for a year whose fetch broke off, as long as every record of a
\* full-year fetch is of that year
PartialSkippedLater ==
  (pc = "fetch" /\ tz = 0 /\ ~edgeIncl)
     => fetchLog[Len(fetchLog)].year \notin partial

PartialSkippedLaterSeen ==
  /\ tz = 0
  /\ ~edgeIncl
  /\ run = 2
  /\ partial # {}
  /\ pc = "done"
  /\ \E i \in DOMAIN target_years : target_years[i] \in partial

\* the records the remote source holds for the range of the current fetch
InFetchRange == Listing(remote, remoteOrder, edgeIncl, after_ts, before_ts)

\* C20: a fetch sends at most one request more than the range holds records
\* and collects at most those records, a run starts at most one fetch per
\* target year and never for the same year twice, every fetch that has
\* started returns to the loop, and every run that has started ends.
C20_Termination ==
  /\ [](pc = "fetch" =>
          /\ page <= Len(InFetchRange) + 1
          /\ Len(reqLog) <= Len(InFetchRange)
          /\ Len(activities) <= Len(InFetchRange))
  /\ [](/\ Len(reqLog) <= MaxId + 2
        /\ yi <= Len(target_years) + 1
        /\ Len(fetchLog) <= Len(target_years)
        /\ Len(fetchLog) <= yi
        /\ pc # "fetch" => Len(fetchLog) < yi
        /\ \A i, j \in DOMAIN fetchLog :
             i # j => fetchLog[i].year # fetchLog[j].year)
  /\ (pc = "fetch") ~> (pc = "loop")
  /\ (pc = "loop") ~> (pc = "done")

C20_Witness ==
  /\ pc = "done"
  /\ run = MaxRuns
  /\ Len(fetchLog) = 2
  /\ Len(reqLog) >= 3
  /\ failed

\* C21: in the script's pagination a failed page request is the last
\* request of the call, the loop has ended with it, and the list it has
\* collected holds records of the source only.
C21_ScriptStopsOnError ==
  ppc = "script" =>
    /\ \A i \in DOMAIN reqLog :
         reqLog[i].status # 200 =>
            (i = Len(reqLog) /\ pc \in {"sdone", "sraise"})
    /\ \A i \in DOMAIN activities :
         \E j \in DOMAIN remote : activities[i] = RemoteSeq(remote)[j]

\* C22: in a run that loaded the archive file, every record of the loaded
\* archive stays in the in-memory archive as often as it was loaded, also
\* records of years that are no target; the file holds what was loaded as
\* long as the run has not written, and all of it once the run has.
C22_ArchiveMonotone ==
  load_status = "ok" =>
    /\ \A i \in DOMAIN store0 :
         Count(all_activities, store0[i]) >= Count(store0, store0[i])
    /\ ~wrote => store = store0
    /\ wrote =>
         \A i \in DOMAIN store0 :
            Count(store, store0[i]) >= Count(store0, store0[i])

C22_Witness ==
  /\ load_status = "ok"
  /\ pc = "done"
  /\ wrote
  /\ Len(store) > Len(store0)
  /\ \E i \in DOMAIN store0 :
       YearOf(store0[i].start_date) \notin Range(target_years)

\* C23: a full fetch that returns no record changes neither the archive,
\* nor the years present, nor updated, and every run that ends with such a
\* year among its targets has issued a full-year fetch for it.
C23_EmptyFetchNoTrace ==
  /\ [][blank' # blank =>
          /\ all_activities' = all_activities
          /\ present_years' = present_years
          /\ updated' = updated
          /\ store' = store]_vars
  /\ [](pc = "done" =>
          \A i \in DOMAIN target_years :
             target_years[i] \in blank =>
                \E j \in DOMAIN fetchLog :
                   /\ fetchLog[j].year = target_years[i]
                   /\ fetchLog[j].kind = "full")

\* the same for the runs in which no other fetch has brought records of the
\* year: the archive the run loaded holds none
EmptyFetchRepeated ==
  pc = "done" =>
    \A i \in DOMAIN target_years :
       (/\ target_years[i] \in blank
        /\ target_years[i] \notin PresentYears(store0)) =>
          \E j \in DOMAIN fetchLog :
             /\ fetchLog[j].year = target_years[i]
             /\ fetchLog[j].kind = "full"

EmptyFetchRepeatedSeen ==
  /\ pc = "done"
  /\ run = 2
  /\ prevTargets = target_years
  /\ \E i \in DOMAIN target_years :
       /\ target_years[i] \in blank
       /\ target_years[i] # current_year
       /\ target_years[i] \in Range(prevTargets)

\* C24: when a run that loaded the archive file or wrote it returns, every
\* record of the returned list is in the archive file, as often as it is
\* returned.
C24_ReturnedInStore ==
  (pc = "done" /\ (load_status = "ok" \/ wrote)) =>
    \A i \in DOMAIN filtered_data :
       Count(store, filtered_data[i]) >= Count(filtered_data, filtered_data[i])

C24_Witness ==
  /\ pc = "done"
  /\ load_status = "ok"
  /\ wrote
  /\ Len(store) > Len(store0)
  /\ \E i \in DOMAIN filtered_data : Count(store0, filtered_data[i]) = 0
  /\ \E i \in DOMAIN filtered_data : Count(store0, filtered_data[i]) > 0

\* C25: a run over an archive with a record that has no start_date never
\* raises, least of all after it has written the file; the years present
\* are years of dated records, and the returned list holds dated records
\* only.
C25_DatelessTolerated ==
  /\ pc # "raised"
  /\ \A y \in present_years : y \in Years
  /\ pc = "done" => \A i \in DOMAIN filtered_data : HasDate(filtered_data[i])

\* the part of C25 that holds: the years present are read from the dated
\* records only
DatelessNotPresent ==
  (pc = "loop" /\ yi = 1) =>
    present_years =
      {store0[i].start_date \div YearLen :
         i \in {j \in DOMAIN store0 : store0[j].start_date >= 0}}

\* a run raises after it has rewritten the file
RaisedAfterWrite == pc = "raised" /\ wrote

====
